---------------------------- MODULE Spec2Model ----------------------------
(***************************************************************************)
(* TurtleNavigator (navigator_implicit/src/navigator.cpp): a ROS 2 node    *)
(* with two subscription callbacks (goal_callback, pose_callback) and one  *)
(* wall-timer callback (control_loop) that turns the latest goal and pose  *)
(* into a clamped velocity command with a PID law on the distance and a P  *)
(* law on the heading.                                                     *)
(*                                                                         *)
(* Numbers.  The fields are C++ doubles; the model computes in fixed point *)
(* with exact integer arithmetic, in magnitudes where double arithmetic    *)
(* neither overflows nor produces NaN:                                     *)
(*   positions            whole metres                                     *)
(*   distances, integral  1/DistScale m                                    *)
(*   gains                1/GainScale                                      *)
(*   control signal       1/(DistScale*GainScale) m/s                      *)
(*   angles               1/AngleScale rad                                 *)
(*   angular command      1/AngleScale rad/s                               *)
(* Only std::sqrt and std::atan2 round (to the resolution above).          *)
(***************************************************************************)
EXTENDS Integers, Sequences, FiniteSets

\* ------------------------------------------------------------ resolution
DistScale == 100
GainScale == 20
AngleScale == 1000

\* pi at the angle resolution (M_PI of <cmath>)
M_PI == 3142

\* the literals of control_loop
max_linear_speed == 2 * DistScale * GainScale
max_angular_speed == 2 * AngleScale
heading_gain == 4

\* a gain given in hundredths (1.0 -> 100, 0.05 -> 5), at the gain resolution
Gain(hundredths) == (hundredths * GainScale) \div 100

\* ---------------------------------------------------------------- bounds
\* control_loop runs at most MaxTicks times in a behaviour
MaxTicks == 2

\* the messages the two topics deliver
GoalMsgs ==
    { [x |-> 0, y |-> 0], [x |-> 4, y |-> 0], [x |-> 50, y |-> 0] }

PoseMsgs ==
    { [x |-> 0, y |-> 0, theta |-> M_PI],
      [x |-> 0, y |-> 0, theta |-> 3 * M_PI],
      [x |-> 0, y |-> 0, theta |-> -5 * M_PI],
      [x |-> 3, y |-> 0, theta |-> 300] }

\* what the storage of a never-assigned double member may hold
IndeterminateX == {0, 3}
IndeterminateY == {0, 5}
IndeterminateTheta == {0, 300}

GoalFields == {"x_goal_", "y_goal_"}
PoseFields == {"x_current_", "y_current_", "theta_current_"}

VARIABLES
    x_goal_, y_goal_,                       \* line 82
    x_current_, y_current_, theta_current_, \* line 83
    kp_, ki_, kd_,                          \* line 84
    prev_error_, integral_,                 \* line 85
    running,      \* the callback the executor is inside: "idle", "goal_callback", "pose_callback"
    pc,           \* source line of that callback's next statement (0 when idle)
    goal_msg,     \* the goal last supplied: the constructor's, then the
                  \* argument of the latest goal_callback
    pose_msg,     \* argument of the latest pose_callback
    cmd_vel,      \* the message last handed to publisher_->publish
    published,    \* number of publish calls
    ticks,        \* number of completed control_loop calls
    loc,          \* the locals of the latest control_loop call
    at_tick,      \* what the latest control_loop call had in front of it
    dist_log,     \* the distance_error of every control_loop call, in order
    written_by,   \* for each pose/goal field, the writer of its present value
    unread_goals, \* goal_callback runs since the latest control_loop (2 = two or more)
    unread_poses  \* pose_callback runs since the latest control_loop (2 = two or more)

fields == <<x_goal_, y_goal_, x_current_, y_current_, theta_current_>>
gains == <<kp_, ki_, kd_>>
memory == <<prev_error_, integral_>>
output == <<cmd_vel, published>>
history == <<ticks, loc, at_tick, dist_log>>
vars == <<fields, gains, memory, output, history, running, pc, goal_msg,
          pose_msg, written_by, unread_goals, unread_poses>>

\* ----------------------------------------------------------- arithmetic
RECURSIVE FloorSqrt(_, _, _)
FloorSqrt(n, lo, hi) ==
    IF lo >= hi THEN lo
    ELSE LET mid == (lo + hi + 1) \div 2
         IN  IF mid * mid <= n THEN FloorSqrt(n, mid, hi)
                               ELSE FloorSqrt(n, lo, mid - 1)

\* std::sqrt of a whole number of square metres, at the distance resolution
sqrt(sq) ==
    LET whole == FloorSqrt(sq, 0, sq)
    IN  FloorSqrt(sq * DistScale * DistScale, whole * DistScale,
                  (whole + 1) * DistScale)

\* arctan(num/den) for num, den > 0, rounded to the angle resolution
ArcTan(num, den) ==
    CASE num = 5 /\ den = 1  -> 1373
      [] num = 5 /\ den = 3  -> 1030
      [] num = 5 /\ den = 4  -> 896
      [] num = 5 /\ den = 47 -> 106
      [] num = 5 /\ den = 50 -> 100

\* std::atan2(y, x): the quadrant rules of the C library, result in [-pi, pi]
atan2(y, x) ==
    CASE y = 0 /\ x >= 0 -> 0
      [] y = 0 /\ x < 0  -> M_PI
      [] x = 0 /\ y > 0  -> M_PI \div 2
      [] x = 0 /\ y < 0  -> -(M_PI \div 2)
      [] x > 0 /\ y > 0  -> ArcTan(y, x)
      [] x > 0 /\ y < 0  -> -ArcTan(-y, x)
      [] x < 0 /\ y > 0  -> M_PI - ArcTan(y, -x)
      [] x < 0 /\ y < 0  -> ArcTan(-y, -x) - M_PI

\* std::clamp(v, lo, hi)
clamp_NoLower(v, lo, hi) == IF hi < v THEN hi ELSE v

clamp(v, lo, hi) == IF v < lo THEN lo ELSE IF hi < v THEN hi ELSE v

\* line 55: while (angle_error > M_PI) angle_error -= 2 * M_PI;
RECURSIVE WhileAbove(_)
WhileAbove(a) == IF a > M_PI THEN WhileAbove(a - 2 * M_PI) ELSE a

\* line 56: while (angle_error < -M_PI) angle_error += 2 * M_PI;
RECURSIVE WhileBelow(_)
WhileBelow(a) == IF a < -M_PI THEN WhileBelow(a + 2 * M_PI) ELSE a

NormalizeAngle_Once(a) ==
    IF a > M_PI THEN a - 2 * M_PI ELSE IF a < -M_PI THEN a + 2 * M_PI ELSE a

\* lines 54-56
NormalizeAngle(a) == WhileBelow(WhileAbove(a))

AngleError_Flipped(angle_to_goal, theta) == theta - angle_to_goal

\* line 52
AngleError(angle_to_goal, theta) == angle_to_goal - theta

ControlSignal_AfterUpdate(d, integral, prev) ==
    kp_ * d + ki_ * (integral + d) + kd_ * (d - d)

\* line 59
ControlSignal(d, integral, prev) ==
    kp_ * d + ki_ * integral + kd_ * (d - prev)

NextIntegral_AntiWindup(integral, d, signal) ==
    IF signal > max_linear_speed \/ signal < -max_linear_speed
    THEN integral ELSE integral + d

\* line 60 (signal: the control signal of line 59, which line 60 does not read)
NextIntegral(integral, d, signal) == integral + d

Publish_Dropped(count) == count

\* line 74
Publish(count) == count + 1

\* ------------------------------------------------------------- executor
CanDispatch_MultiThreaded == TRUE

\* rclcpp::spin of main: one single-threaded executor, which takes the next
\* ready callback only after the one it is inside has returned
CanDispatch == running = "idle"

Age(stamp) == IF stamp = "none" THEN "none" ELSE "old"

Min(a, b) == IF a < b THEN a ELSE b

\* ----------------------------------------------------------------- Init
\* TurtleNavigator::TurtleNavigator: the mem-initializer list sets the goal,
\* the gains, prev_error_ and integral_; x_current_, y_current_ and
\* theta_current_ have no initializer, so their values are indeterminate
Init ==
    /\ x_goal_ = 4
    /\ y_goal_ = 5
    /\ kp_ = Gain(100)
    /\ ki_ = Gain(0)
    /\ kd_ = Gain(5)
    /\ prev_error_ = 0
    /\ integral_ = 0
    /\ x_current_ \in IndeterminateX
    /\ y_current_ \in IndeterminateY
    /\ theta_current_ \in IndeterminateTheta
    /\ running = "idle"
    /\ pc = 0
    /\ goal_msg = [x |-> 4, y |-> 5]
    /\ pose_msg = [x |-> 0, y |-> 0, theta |-> 0]
    /\ cmd_vel = [linear |-> 0, angular |-> 0]
    /\ published = 0
    /\ ticks = 0
    /\ loc = [error_x |-> 0, error_y |-> 0, distance_error |-> 0,
              angle_to_goal |-> 0, angle_raw |-> 0, angle_error |-> 0,
              control_signal |-> 0]
    /\ at_tick = [goal |-> [x |-> 0, y |-> 0],
                  pose |-> [x |-> 0, y |-> 0, theta |-> 0],
                  goal_msg |-> [x |-> 0, y |-> 0],
                  pose_msg |-> [x |-> 0, y |-> 0, theta |-> 0],
                  goal_writers |-> {}, pose_writers |-> {},
                  goals_since |-> 0, poses_since |-> 0]
    /\ dist_log = << >>
    /\ written_by = [f \in GoalFields \cup PoseFields |->
                        IF f \in GoalFields THEN "ctor" ELSE "none"]
    /\ unread_goals = 0
    /\ unread_poses = 0

\* -------------------------------------------------------- goal_callback
\* the executor takes a message from "coordinates" and enters goal_callback
DispatchGoal(m) ==
    /\ CanDispatch
    /\ running' = "goal_callback"
    /\ pc' = 32
    /\ goal_msg' = m
    /\ written_by' = [f \in DOMAIN written_by |->
                        IF f \in GoalFields THEN Age(written_by[f])
                                            ELSE written_by[f]]
    /\ unread_goals' = Min(unread_goals + 1, 2)
    /\ UNCHANGED <<fields, gains, memory, output, history, pose_msg, unread_poses>>

GoalLine32_Reset ==
    /\ running = "goal_callback" /\ pc = 32
    /\ x_goal_' = goal_msg.x
    /\ integral_' = 0
    /\ prev_error_' = 0
    /\ written_by' = [written_by EXCEPT !["x_goal_"] = "latest"]
    /\ pc' = 33
    /\ UNCHANGED <<y_goal_, x_current_, y_current_, theta_current_, gains,
                   output, history, running, goal_msg, pose_msg,
                   unread_goals, unread_poses>>

\* x_goal_ = msg->x;
GoalLine32 ==
    /\ running = "goal_callback" /\ pc = 32
    /\ x_goal_' = goal_msg.x
    /\ written_by' = [written_by EXCEPT !["x_goal_"] = "latest"]
    /\ pc' = 33
    /\ UNCHANGED <<y_goal_, x_current_, y_current_, theta_current_, gains,
                   memory, output, history, running, goal_msg, pose_msg,
                   unread_goals, unread_poses>>

\* y_goal_ = msg->y; (the log line that follows changes no state) and return
GoalLine33 ==
    /\ running = "goal_callback" /\ pc = 33
    /\ y_goal_' = goal_msg.y
    /\ written_by' = [written_by EXCEPT !["y_goal_"] = "latest"]
    /\ running' = "idle"
    /\ pc' = 0
    /\ UNCHANGED <<x_goal_, x_current_, y_current_, theta_current_, gains,
                   memory, output, history, goal_msg, pose_msg,
                   unread_goals, unread_poses>>

\* -------------------------------------------------------- pose_callback
\* the executor takes a message from "turtle1/pose" and enters pose_callback
DispatchPose(m) ==
    /\ CanDispatch
    /\ running' = "pose_callback"
    /\ pc' = 39
    /\ pose_msg' = m
    /\ written_by' = [f \in DOMAIN written_by |->
                        IF f \in PoseFields THEN Age(written_by[f])
                                            ELSE written_by[f]]
    /\ unread_poses' = Min(unread_poses + 1, 2)
    /\ UNCHANGED <<fields, gains, memory, output, history, goal_msg, unread_goals>>

\* x_current_ = msg->x;
PoseLine39 ==
    /\ running = "pose_callback" /\ pc = 39
    /\ x_current_' = pose_msg.x
    /\ written_by' = [written_by EXCEPT !["x_current_"] = "latest"]
    /\ pc' = 40
    /\ UNCHANGED <<x_goal_, y_goal_, y_current_, theta_current_, gains,
                   memory, output, history, running, goal_msg, pose_msg,
                   unread_goals, unread_poses>>

\* y_current_ = msg->y;
PoseLine40 ==
    /\ running = "pose_callback" /\ pc = 40
    /\ y_current_' = pose_msg.y
    /\ written_by' = [written_by EXCEPT !["y_current_"] = "latest"]
    /\ pc' = 41
    /\ UNCHANGED <<x_goal_, y_goal_, x_current_, theta_current_, gains,
                   memory, output, history, running, goal_msg, pose_msg,
                   unread_goals, unread_poses>>

PoseLine41_Skipped ==
    /\ running = "pose_callback" /\ pc = 41
    /\ running' = "idle"
    /\ pc' = 0
    /\ UNCHANGED <<fields, gains, memory, output, history, goal_msg,
                   pose_msg, written_by, unread_goals, unread_poses>>

\* theta_current_ = msg->theta; and return
PoseLine41 ==
    /\ running = "pose_callback" /\ pc = 41
    /\ theta_current_' = pose_msg.theta
    /\ written_by' = [written_by EXCEPT !["theta_current_"] = "latest"]
    /\ running' = "idle"
    /\ pc' = 0
    /\ UNCHANGED <<x_goal_, y_goal_, x_current_, y_current_, gains,
                   memory, output, history, goal_msg, pose_msg,
                   unread_goals, unread_poses>>

\* --------------------------------------------------------- control_loop
\* the 100 ms wall timer fires and the executor runs control_loop, lines 44-75
control_loop ==
    /\ CanDispatch
    /\ ticks < MaxTicks
    /\ LET error_x == x_goal_ - x_current_
           error_y == y_goal_ - y_current_
           distance_error == sqrt(error_x * error_x + error_y * error_y)
           angle_to_goal == atan2(error_y, error_x)
           angle_raw == AngleError(angle_to_goal, theta_current_)
           angle_error == NormalizeAngle(angle_raw)
           control_signal == ControlSignal(distance_error, integral_, prev_error_)
       IN  /\ integral_' = NextIntegral(integral_, distance_error, control_signal)
           /\ prev_error_' = distance_error
           /\ cmd_vel' =
                [linear  |-> clamp(control_signal, -max_linear_speed, max_linear_speed),
                 angular |-> clamp(heading_gain * angle_error,
                                   -max_angular_speed, max_angular_speed)]
           /\ published' = Publish(published)
           /\ loc' = [error_x |-> error_x, error_y |-> error_y,
                      distance_error |-> distance_error,
                      angle_to_goal |-> angle_to_goal,
                      angle_raw |-> angle_raw, angle_error |-> angle_error,
                      control_signal |-> control_signal]
           /\ dist_log' = Append(dist_log, distance_error)
    /\ at_tick' = [goal |-> [x |-> x_goal_, y |-> y_goal_],
                   pose |-> [x |-> x_current_, y |-> y_current_,
                             theta |-> theta_current_],
                   goal_msg |-> goal_msg,
                   pose_msg |-> pose_msg,
                   goal_writers |-> {written_by[f] : f \in GoalFields},
                   pose_writers |-> {written_by[f] : f \in PoseFields},
                   goals_since |-> unread_goals,
                   poses_since |-> unread_poses]
    /\ ticks' = ticks + 1
    /\ unread_goals' = 0
    /\ unread_poses' = 0
    /\ UNCHANGED <<fields, gains, running, pc, goal_msg, pose_msg, written_by>>

\* ----------------------------------------------------------------- Next
Next ==
    \/ \E m \in GoalMsgs : DispatchGoal(m)
    \/ GoalLine32
    \/ GoalLine33
    \/ \E m \in PoseMsgs : DispatchPose(m)
    \/ PoseLine39
    \/ PoseLine40
    \/ PoseLine41
    \/ control_loop

Spec == Init /\ [][Next]_vars

\* ======================================================================
\* Properties
\* ======================================================================
SumSeq(q) ==
    LET RECURSIVE Sum(_)
        Sum(i) == IF i = 0 THEN 0 ELSE q[i] + Sum(i - 1)
    IN  Sum(Len(q))

\* v limited to [-limit, limit], case by case
Limited(v, limit) ==
    CASE v > limit  -> limit
      [] v < -limit -> -limit
      [] OTHER      -> v

\* the representative of a modulo 2*pi in [-pi, pi], reached from a without
\* passing through the interval (so pi stays pi and -pi stays -pi)
Wrapped(a) ==
    CASE a > M_PI  -> a - 2 * M_PI * ((a - M_PI + 2 * M_PI - 1) \div (2 * M_PI))
      [] a < -M_PI -> a + 2 * M_PI * ((-M_PI - a + 2 * M_PI - 1) \div (2 * M_PI))
      [] OTHER     -> a

\* integral_error and previous_distance_error as the tick before the latest
\* one left them (0 when the latest tick is the first)
IntegralBefore == SumSeq(SubSeq(dist_log, 1, Len(dist_log) - 1))
PreviousBefore ==
    IF Len(dist_log) >= 2 THEN dist_log[Len(dist_log) - 1] ELSE 0

C2_HalfOpenInterval ==
    ticks > 0 =>
        /\ -M_PI < loc.angle_error
        /\ loc.angle_error <= M_PI
        /\ loc.angle_raw \in {-M_PI, -3 * M_PI} => loc.angle_error = M_PI

\* C2 (amended): the heading error a tick uses lies in the closed interval
\* [-pi, pi] and differs from the raw error by a multiple of 2*pi; both ends
\* are kept, so a raw error of 5*pi gives pi and raw errors of -pi and -3*pi
\* give -pi.
C2_ClosedInterval ==
    ticks > 0 =>
        /\ -M_PI <= loc.angle_error
        /\ loc.angle_error <= M_PI
        /\ (loc.angle_error - loc.angle_raw) % (2 * M_PI) = 0
        /\ loc.angle_raw = 5 * M_PI => loc.angle_error = M_PI
        /\ loc.angle_raw \in {-M_PI, -3 * M_PI} => loc.angle_error = -M_PI
        /\ loc.angle_raw = at_tick.pose.theta * (-1) + loc.angle_to_goal

\* a tick whose raw heading error was -3*pi and which used -pi
C2_Witness ==
    /\ ticks > 0
    /\ loc.angle_raw = -3 * M_PI
    /\ loc.angle_error = -M_PI

\* ---------------------------------------------------------------- C3
\* C3: a tick that runs before any receive_pose and before any receive_goal
\* reads the zero pose and the construction goal (4, 5), so the first command
\* is the one those defaults give: linear 2.0 and angular 2.0.
C3_DefaultsBeforeFirstUpdate ==
    (ticks > 0 /\ at_tick.pose_writers = {"none"} /\ at_tick.goal_writers = {"ctor"}) =>
        /\ at_tick.goal = [x |-> 4, y |-> 5]
        /\ at_tick.pose = [x |-> 0, y |-> 0, theta |-> 0]
        /\ loc.error_x = 4
        /\ loc.error_y = 5
        /\ ticks = 1 => cmd_vel = [linear |-> 2 * DistScale * GainScale,
                                   angular |-> 2 * AngleScale]

\* ---------------------------------------------------------------- C4
\* C4: every tick computes its errors from the goal of the most recent
\* receive_goal (the construction goal when there was none) and from the pose
\* of the most recent receive_pose before it; updates overwritten before the
\* tick leave no trace in it.
C4_LastUpdateWins ==
    ticks > 0 =>
        /\ at_tick.goal = at_tick.goal_msg
        /\ at_tick.pose_writers # {"none"} =>
              /\ at_tick.pose = at_tick.pose_msg
              /\ loc.error_x = at_tick.goal_msg.x - at_tick.pose_msg.x
              /\ loc.error_y = at_tick.goal_msg.y - at_tick.pose_msg.y
              /\ loc.angle_raw = loc.angle_to_goal - at_tick.pose_msg.theta

\* a tick that came after two or more goal updates and two or more pose
\* updates since the tick before it
C4_Witness ==
    /\ ticks = 2
    /\ at_tick.goals_since = 2
    /\ at_tick.poses_since = 2
    /\ at_tick.goal_msg = [x |-> 4, y |-> 0]
    /\ at_tick.pose_msg = [x |-> 3, y |-> 0, theta |-> 300]
    /\ loc.error_x = 1

\* ---------------------------------------------------------------- C5
\* C5: integral_error is the sum of the distance errors of all ticks so far
\* and previous_distance_error is the distance error of the latest tick
\* (both 0 before the first), clamped ticks included; a constant distance
\* error d over N ticks gives N * d.
C5_IntegralIsSum ==
    /\ Len(dist_log) = ticks
    /\ integral_ = SumSeq(dist_log)
    /\ prev_error_ = IF ticks = 0 THEN 0 ELSE dist_log[ticks]
    /\ ticks > 0 => dist_log[ticks] = loc.distance_error
    /\ (\A i \in 1..ticks : dist_log[i] = dist_log[1]) =>
          integral_ = ticks * (IF ticks = 0 THEN 0 ELSE dist_log[1])

\* two ticks with the same non-zero distance error, the latest one clamped
C5_Witness ==
    /\ ticks >= 2
    /\ \A i \in 1..ticks : dist_log[i] = dist_log[1]
    /\ dist_log[1] > 0
    /\ loc.control_signal > max_linear_speed
    /\ integral_ = ticks * dist_log[1]

\* ---------------------------------------------------------------- C6
\* C6: the number of emitted commands equals the number of completed ticks
\* (one per tick, none from receive_goal or receive_pose), and the command
\* emitted is the one with both clamps applied.
C6_OneCommandPerTick ==
    /\ published = ticks
    /\ published > 0 =>
          cmd_vel = [linear  |-> Limited(loc.control_signal, max_linear_speed),
                     angular |-> Limited(heading_gain * loc.angle_error,
                                         max_angular_speed)]

\* one tick, then goal and pose updates that have run to completion
C6_Witness ==
    /\ ticks = 1
    /\ published = 1
    /\ unread_goals > 0
    /\ unread_poses > 0
    /\ running = "idle"

\* ---------------------------------------------------------------- C7
\* C7: a tick leaves the stored pose and goal unchanged; receive_goal changes
\* nothing but the goal (the controller memory is not reset); receive_pose
\* changes nothing but the pose; no operation changes the gains.
C7_Frame ==
    [][ /\ gains' = gains
        /\ ticks' # ticks => fields' = fields
        /\ (running = "goal_callback" \/ running' = "goal_callback") =>
              /\ <<x_current_, y_current_, theta_current_>>' =
                    <<x_current_, y_current_, theta_current_>>
              /\ memory' = memory
              /\ output' = output
        /\ (running = "pose_callback" \/ running' = "pose_callback") =>
              /\ <<x_goal_, y_goal_>>' = <<x_goal_, y_goal_>>
              /\ memory' = memory
              /\ output' = output
      ]_vars

\* a goal change completed after a tick, with the controller memory kept
C7_Witness ==
    /\ ticks > 0
    /\ running = "idle"
    /\ unread_goals > 0
    /\ <<x_goal_, y_goal_>> # <<at_tick.goal.x, at_tick.goal.y>>
    /\ integral_ > 0
    /\ prev_error_ > 0

\* ---------------------------------------------------------------- C8
\* C8: the linear command is clamp(kp*d + ki*I + kd*(d - p)) with d this
\* tick's distance error and I, p as the preceding tick left them (0 on the
\* first tick); beyond the limit it is +/-max_linear_speed with the sign of
\* the signal, otherwise the signal itself.
C8_LinearCommand ==
    ticks > 0 =>
        LET d == loc.distance_error
            signal == kp_ * d + ki_ * IntegralBefore + kd_ * (d - PreviousBefore)
        IN  /\ loc.control_signal = signal
            /\ signal > max_linear_speed => cmd_vel.linear = max_linear_speed
            /\ signal < -max_linear_speed => cmd_vel.linear = -max_linear_speed
            /\ (-max_linear_speed <= signal /\ signal <= max_linear_speed) =>
                  cmd_vel.linear = signal

\* a second tick whose derivative term made the signal negative and unclamped
C8_Witness ==
    /\ ticks = 2
    /\ PreviousBefore > loc.distance_error
    /\ loc.control_signal < 0
    /\ cmd_vel.linear = loc.control_signal

\* ---------------------------------------------------------------- C9
\* C9: a tick with the pose position equal to the goal and with
\* integral_error = previous_distance_error = 0 emits linear 0, leaves both
\* memory cells at 0, and emits as angular the clamped heading_gain times
\* the normalized value of -heading.
C9_ZeroErrorFixedPoint ==
    ( /\ ticks > 0
      /\ at_tick.pose.x = at_tick.goal.x
      /\ at_tick.pose.y = at_tick.goal.y
      /\ IntegralBefore = 0
      /\ PreviousBefore = 0 ) =>
        /\ cmd_vel.linear = 0
        /\ integral_ = 0
        /\ prev_error_ = 0
        /\ cmd_vel.angular =
              Limited(heading_gain * Wrapped(-at_tick.pose.theta), max_angular_speed)

\* such a tick, with a heading of pi
C9_Witness ==
    /\ ticks > 0
    /\ at_tick.pose.x = at_tick.goal.x
    /\ at_tick.pose.y = at_tick.goal.y
    /\ IntegralBefore = 0
    /\ PreviousBefore = 0
    /\ at_tick.pose.theta = M_PI
    /\ cmd_vel = [linear |-> 0, angular |-> -max_angular_speed]

\* --------------------------------------------------------------- C10
\* C10: with run-to-completion dispatch no tick reads a torn value: both
\* goal fields it reads have one writer (the constructor or one
\* receive_goal) and all three pose fields have one writer (one
\* receive_pose, or none at all before the first one); a pair or triple that
\* a callback wrote is the message of that one callback.
C10_NoTornRead ==
    ticks > 0 =>
        /\ at_tick.goal_writers \in {{"ctor"}, {"latest"}}
        /\ at_tick.pose_writers \in {{"none"}, {"latest"}}
        /\ at_tick.goal_writers = {"latest"} => at_tick.goal \in GoalMsgs
        /\ at_tick.pose_writers = {"latest"} => at_tick.pose \in PoseMsgs

\* a tick that read a goal and a pose each written by a callback that had
\* replaced an earlier update
C10_Witness ==
    /\ ticks > 0
    /\ at_tick.goal_writers = {"latest"}
    /\ at_tick.pose_writers = {"latest"}
    /\ at_tick.goals_since = 2
    /\ at_tick.poses_since = 2

=============================================================================
